---- MODULE Spec2Model ----
(***************************************************************************)
(* Aircraft maintenance planning MILP of project.py: the hardcoded data,   *)
(* the decision variables X, Y, L, L_new, the objective, the seven         *)
(* constraint families, the call of the solver and the status branch that  *)
(* prints the result.                                                      *)
(*                                                                         *)
(* The solver is modelled as a branching search: it fixes the variables    *)
(* in a fixed order (per aircraft the Y row, then the X row; then per day  *)
(* L[d], then L_new[d]) and cuts a node off as soon as a constraint whose  *)
(* variables are all fixed is violated.  A node with every variable fixed  *)
(* is a feasible solution; the solver ends with status OPTIMAL on a        *)
(* feasible solution whose objective equals the best objective of the      *)
(* search tree.                                                            *)
(***************************************************************************)
EXTENDS Integers, Sequences, FiniteSets, TLC

VARIABLES pc, m_s, constrs, X, Y, L, L_new, excess, ObjBound, status, out

vars == <<pc, m_s, constrs, X, Y, L, L_new, excess, ObjBound, status, out>>

----------------------------------------------------------------------------
(* Bounds of the search.                                                   *)

\* largest value explored for an integer lease variable L[d], L_new[d]
MaxLease == 8
\* lease units, summed over all L[d] and L_new[d], that a node may carry
\* above the least value the constraints admit for each variable
MaxSlack == 1

----------------------------------------------------------------------------
(* Data (project.py lines 6-37).                                           *)

A == {0, 1}
C == [a \in A |-> {0, 1, 2, 3}]
S == {0, 1, 2}
d_0 == 0
PH == 7
Delta == 3
days == d_0 .. (d_0 + PH + Delta - 1)

d_s == (0 :> 1) @@ (1 :> 3) @@ (2 :> 5)
S_a == [a \in A |-> S]

c_fix == 100
c_ex == 500
c_s == [s \in S |-> 200]
c_Ld == 50
c_Lf == 200

\* P_fail in tenths: min(0.1 * (d - d_0), 1.0) * 10
P_fail10(a, c, d) == IF d - d_0 < 10 THEN d - d_0 ELSE 10
d_install == [k \in UNION {{<<a, c>> : c \in C[a]} : a \in A} |-> 0]
S_begin == [d \in days |-> 2]

A_r == {0}
G_a == (0 :> << <<0, 1>>, <<1, 2>>, <<2, 3>> >>)
d_r == (0 :> 5)

\* S_begin.get(d, default)
S_begin_get(d, default) == IF d \in DOMAIN S_begin THEN S_begin[d] ELSE default

\* the seven constraint families the script adds to the model
AllConstrs == {"Y_geq_X", "Y_leq_sumX", "L_d", "L_new_d", "One_slot",
               "Slot_capacity", "AOG_prevent"}

GRB_INFINITY == 10^9

----------------------------------------------------------------------------
(* Helpers.                                                                *)

Max(x, y) == IF x >= y THEN x ELSE y
SetMin(T) == CHOOSE x \in T : \A y \in T : x <= y

RECURSIVE SumOver(_, _)
SumOver(f, T) ==
  IF T = {} THEN 0
  ELSE LET k == CHOOSE k \in T : TRUE
       IN  f[k] + SumOver(f, T \ {k})

\* quicksum of the terms f[k], k in DOMAIN f
quicksum(f) == SumOver(f, DOMAIN f)

RECURSIVE SortedSeq(_)
SortedSeq(T) == IF T = {} THEN <<>>
                ELSE LET m == SetMin(T) IN <<m>> \o SortedSeq(T \ {m})

----------------------------------------------------------------------------
(* Decision variables (lines 44-61).  A node n of the search is a record   *)
(* of the values fixed so far: n.X and n.Y map the fixed keys to 0 or 1,   *)
(* n.L and n.L_new map the fixed days to an integer >= 0.                  *)

XKeys(a) == {<<a, c, s>> : c \in C[a], s \in S_a[a]}
YKeys(a) == {<<a, s>> : s \in S_a[a]}
AllXKeys == UNION {XKeys(a) : a \in A}
AllYKeys == UNION {YKeys(a) : a \in A}

Root == [X |-> <<>>, Y |-> <<>>, L |-> <<>>, L_new |-> <<>>, excess |-> 0]
Node == [X |-> X, Y |-> Y, L |-> L, L_new |-> L_new, excess |-> excess]

XDone(n) == {a \in A : XKeys(a) \subseteq DOMAIN n.X}
YDone(n) == {a \in A : YKeys(a) \subseteq DOMAIN n.Y}
IsLeaf(n) == /\ DOMAIN n.X = AllXKeys
             /\ DOMAIN n.Y = AllYKeys
             /\ DOMAIN n.L = days
             /\ DOMAIN n.L_new = days

----------------------------------------------------------------------------
(* Objective (lines 63-81).  The products P_fail * c_ex are exact in       *)
(* tenths because c_ex is a multiple of 10.                                *)

replace_cost(n) ==
  quicksum([k \in AllXKeys |->
     n.X[k] * (c_fix + (P_fail10(k[1], k[2], d_s[k[3]]) * c_ex
                          * (d_s[k[3]] - d_install[k[1], k[2]])) \div 10)])

postpone_cost(n) ==
  quicksum([k \in DOMAIN d_install |->
     (1 - quicksum([s \in S_a[k[1]] |-> n.X[k[1], k[2], s]]))
       * (c_fix + (P_fail10(k[1], k[2], d_0 + PH) * c_ex
                     * (d_0 + PH - d_install[k])) \div 10)])

slot_cost(n) == quicksum([k \in AllYKeys |-> n.Y[k] * c_s[k[2]]])

lease_cost(n) == quicksum([d \in days |-> n.L[d] * c_Ld + n.L_new[d] * c_Lf])

Objective(n) == replace_cost(n) + postpone_cost(n) + slot_cost(n) + lease_cost(n)

----------------------------------------------------------------------------
(* Constraints (lines 83-128).                                             *)

\* 1. Y_as >= X_acs
Y_geq_X(n, a, c, s) == n.Y[a, s] >= n.X[a, c, s]

\* 2. Y_as <= sum_c X_acs
\* variant: right-hand side one too large
Y_leq_sumX_PlusOne(n, a, s) ==
  n.Y[a, s] <= quicksum([c \in C[a] |-> n.X[a, c, s]]) + 1

Y_leq_sumX(n, a, s) == n.Y[a, s] <= quicksum([c \in C[a] |-> n.X[a, c, s]])

\* 3. leased parts on day d
\* variant: the repair window closed at d_s + Delta
replaced_components_Closed(n, d) ==
  quicksum([k \in {j \in AllXKeys : d_s[j[3]] <= d /\ d <= d_s[j[3]] + Delta}
              |-> n.X[k]])

replaced_components(n, d) ==
  quicksum([k \in {j \in AllXKeys : d_s[j[3]] <= d /\ d < d_s[j[3]] + Delta}
              |-> n.X[k]])

L_d(n, d) == n.L[d] >= replaced_components(n, d) - S_begin[d]
L_d_nonneg(n, d) == n.L[d] >= 0

\* 4. newly leased parts on day d
L_new_d(n, d) == n.L_new[d] >= n.L[d] - n.L[d - 1]
L_new_d_nonneg(n, d) == n.L_new[d] >= 0
L_new_d0(n) == n.L_new[d_0] >= n.L[d_0] - Max(0, S_begin_get(d_0 - 1, 0))

\* 5. at most one slot per aircraft
\* variant: the constraint added for the critical aircraft only
One_slot_Critical(n, a) ==
  a \in A_r => quicksum([s \in S_a[a] |-> n.Y[a, s]]) <= 1

One_slot(n, a) == quicksum([s \in S_a[a] |-> n.Y[a, s]]) <= 1

\* 6. slot capacity
\* variant: only the critical aircraft counted
Slot_capacity_Critical(n, s) == quicksum([a \in A_r |-> n.Y[a, s]]) <= m_s[s]

Slot_capacity(n, s) == quicksum([a \in A |-> n.Y[a, s]]) <= m_s[s]

\* 7. AOG prevention
\* variant: slots on the risk date itself admitted
AOG_prevent_Leq(n, a, g) ==
  quicksum([k \in {<<i, s>> : i \in DOMAIN g,
                              s \in {t \in S_a[a] : d_s[t] <= d_r[a]}}
              |-> n.X[a, g[k[1]], k[2]]]) >= Len(g)

\* variant: strictly more than len(g) replacements demanded
AOG_prevent_Strict(n, a, g) ==
  quicksum([k \in {<<i, s>> : i \in DOMAIN g,
                              s \in {t \in S_a[a] : d_s[t] < d_r[a]}}
              |-> n.X[a, g[k[1]], k[2]]]) > Len(g)

\* variant: slots after the risk date instead of before it
AOG_prevent_After(n, a, g) ==
  quicksum([k \in {<<i, s>> : i \in DOMAIN g,
                              s \in {t \in S_a[a] : d_s[t] > d_r[a]}}
              |-> n.X[a, g[k[1]], k[2]]]) >= Len(g)

\* variant: one replacement per combination suffices
AOG_prevent_AtLeastOne(n, a, g) ==
  quicksum([k \in {<<i, s>> : i \in DOMAIN g,
                              s \in {t \in S_a[a] : d_s[t] < d_r[a]}}
              |-> n.X[a, g[k[1]], k[2]]]) >= 1

AOG_prevent(n, a, g) ==
  quicksum([k \in {<<i, s>> : i \in DOMAIN g,
                              s \in {t \in S_a[a] : d_s[t] < d_r[a]}}
              |-> n.X[a, g[k[1]], k[2]]]) >= Len(g)

\* a family constrains the search only if the model contains it
Enforced(fam, holds) == fam \in constrs => holds

----------------------------------------------------------------------------
(* Every constraint of the model, on a node with all variables fixed.      *)

Feasible(n) ==
  /\ Enforced("Y_geq_X", \A a \in A : \A c \in C[a] : \A s \in S_a[a] :
                            Y_geq_X(n, a, c, s))
  /\ Enforced("Y_leq_sumX", \A a \in A : \A s \in S_a[a] : Y_leq_sumX(n, a, s))
  /\ Enforced("L_d", \A d \in days : L_d(n, d) /\ L_d_nonneg(n, d))
  /\ Enforced("L_new_d",
        /\ \A d \in days \ {d_0} : L_new_d(n, d) /\ L_new_d_nonneg(n, d)
        /\ L_new_d0(n))
  /\ Enforced("One_slot", \A a \in A : One_slot(n, a))
  /\ Enforced("Slot_capacity", \A s \in S : Slot_capacity(n, s))
  /\ Enforced("AOG_prevent", \A a \in A_r : \A i \in DOMAIN G_a[a] :
                                AOG_prevent(n, a, G_a[a][i]))

----------------------------------------------------------------------------
(* The search of model.optimize() (line 131).                              *)

\* constraints whose last variable is fixed with the Y row of aircraft a
YRowOK(n, a) ==
  /\ Enforced("One_slot", One_slot(n, a))
  /\ YDone(n) = A => Enforced("Slot_capacity", \A s \in S : Slot_capacity(n, s))

\* constraints whose last variable is fixed with the X row of aircraft a
XRowOK(n, a) ==
  /\ Enforced("Y_geq_X", \A c \in C[a] : \A s \in S_a[a] : Y_geq_X(n, a, c, s))
  /\ Enforced("Y_leq_sumX", \A s \in S_a[a] : Y_leq_sumX(n, a, s))
  /\ a \in A_r => Enforced("AOG_prevent", \A i \in DOMAIN G_a[a] :
                                             AOG_prevent(n, a, G_a[a][i]))

\* constraints whose last variable is L[d]
LOK(n, d) == Enforced("L_d", L_d(n, d) /\ L_d_nonneg(n, d))

\* constraints whose last variable is L_new[d]
LnewOK(n, d) ==
  Enforced("L_new_d", IF d = d_0 THEN L_new_d0(n)
                      ELSE L_new_d(n, d) /\ L_new_d_nonneg(n, d))

WithL(n, d, v) == [n EXCEPT !.L = n.L @@ (d :> v)]
WithLnew(n, d, v) == [n EXCEPT !.L_new = n.L_new @@ (d :> v)]

\* integer variable with lower bound 0: the admitted values, explored from
\* the least one upwards while the node's excess stays within MaxSlack
LChildren(n, d) ==
  LET adm == {v \in 0 .. MaxLease : LOK(WithL(n, d, v), d)}
  IN  IF adm = {} THEN {}
      ELSE {[WithL(n, d, v) EXCEPT !.excess = n.excess + v - SetMin(adm)] :
               v \in {w \in adm : n.excess + w - SetMin(adm) <= MaxSlack}}

LnewChildren(n, d) ==
  LET adm == {v \in 0 .. MaxLease : LnewOK(WithLnew(n, d, v), d)}
  IN  IF adm = {} THEN {}
      ELSE {[WithLnew(n, d, v) EXCEPT !.excess = n.excess + v - SetMin(adm)] :
               v \in {w \in adm : n.excess + w - SetMin(adm) <= MaxSlack}}

YChildren(n, a) ==
  {c \in {[n EXCEPT !.Y = n.Y @@ y] : y \in [YKeys(a) -> {0, 1}]} : YRowOK(c, a)}

XChildren(n, a) ==
  {c \in {[n EXCEPT !.X = n.X @@ x] : x \in [XKeys(a) -> {0, 1}]} : XRowOK(c, a)}

\* the nodes below n: the next variable in the branching order, fixed to
\* each value that no constraint rules out
Children(n) ==
  IF XDone(n) # YDone(n) THEN XChildren(n, SetMin(YDone(n) \ XDone(n)))
  ELSE IF YDone(n) # A THEN YChildren(n, SetMin(A \ YDone(n)))
  ELSE IF DOMAIN n.L_new # DOMAIN n.L
       THEN LnewChildren(n, SetMin(DOMAIN n.L \ DOMAIN n.L_new))
  ELSE IF DOMAIN n.L # days THEN LChildren(n, SetMin(days \ DOMAIN n.L))
  ELSE {}

\* least objective of a feasible solution below n, GRB_INFINITY if none
RECURSIVE Best(_)
Best(n) ==
  IF IsLeaf(n) THEN Objective(n)
  ELSE LET below == {Best(c) : c \in Children(n)}
       IN  IF below = {} THEN GRB_INFINITY ELSE SetMin(below)

\* the objective has no finite minimum if an unbounded variable pays
Unbounded == c_Ld < 0 \/ c_Lf < 0

----------------------------------------------------------------------------
(* Result output (lines 133-150).                                          *)

RECURSIVE ComponentLines(_, _, _, _)
ComponentLines(n, a, s, cs) ==
  IF cs = <<>> THEN <<>>
  ELSE (IF 2 * n.X[a, Head(cs), s] > 1
        THEN << <<"replaced", a, Head(cs), s>> >> ELSE <<>>)
       \o ComponentLines(n, a, s, Tail(cs))

RECURSIVE SlotLines(_, _, _)
SlotLines(n, a, ss) ==
  IF ss = <<>> THEN <<>>
  ELSE (IF 2 * n.Y[a, Head(ss)] > 1
        THEN << <<"assigned", a, Head(ss)>> >> ELSE <<>>)
       \o ComponentLines(n, a, Head(ss), SortedSeq(C[a]))
       \o SlotLines(n, a, Tail(ss))

RECURSIVE AssetLines(_, _)
AssetLines(n, as) ==
  IF as = <<>> THEN <<>>
  ELSE SlotLines(n, Head(as), SortedSeq(S_a[Head(as)])) \o AssetLines(n, Tail(as))

RECURSIVE DayLines(_, _)
DayLines(n, ds) ==
  IF ds = <<>> THEN <<>>
  ELSE (IF n.L[Head(ds)] > 0
        THEN << <<"leased", Head(ds), n.L[Head(ds)]>> >> ELSE <<>>)
       \o (IF n.L_new[Head(ds)] > 0
           THEN << <<"newly_leased", Head(ds), n.L_new[Head(ds)]>> >> ELSE <<>>)
       \o DayLines(n, Tail(ds))

Output(st, n) ==
  IF st = "OPTIMAL"
  THEN << <<"optimal_found">>, <<"objective", Objective(n)>> >>
       \o AssetLines(n, SortedSeq(A)) \o DayLines(n, SortedSeq(days))
  ELSE << <<"not_found">> >>

----------------------------------------------------------------------------
(* State machine.                                                          *)

\* the model as built by lines 40-128, before model.optimize()
Init ==
  /\ pc = "optimize"
  /\ m_s = [s \in S |-> 1]
  /\ constrs = AllConstrs
  /\ X = <<>> /\ Y = <<>> /\ L = <<>> /\ L_new = <<>> /\ excess = 0
  /\ ObjBound = GRB_INFINITY
  /\ status = "LOADED"
  /\ out = <<>>

\* model.optimize() starts: the solver bounds the objective
Optimize ==
  /\ pc = "optimize"
  /\ pc' = "search"
  /\ ObjBound' = Best(Root)
  /\ UNCHANGED <<m_s, constrs, X, Y, L, L_new, excess, status, out>>

\* the solver fixes the next variable
Branch ==
  /\ pc = "search"
  /\ \E c \in Children(Node) :
       /\ X' = c.X /\ Y' = c.Y /\ L' = c.L /\ L_new' = c.L_new
       /\ excess' = c.excess
  /\ UNCHANGED <<pc, m_s, constrs, ObjBound, status, out>>

\* the solver ends on a feasible solution of least objective
Optimal ==
  /\ pc = "search"
  /\ IsLeaf(Node)
  /\ ~Unbounded
  /\ Objective(Node) = ObjBound
  /\ status' = "OPTIMAL"
  /\ pc' = "solved"
  /\ UNCHANGED <<m_s, constrs, X, Y, L, L_new, excess, ObjBound, out>>

\* the solver ends without any feasible solution
Infeasible ==
  /\ pc = "search"
  /\ ObjBound = GRB_INFINITY
  /\ status' = "INFEASIBLE"
  /\ pc' = "solved"
  /\ UNCHANGED <<m_s, constrs, X, Y, L, L_new, excess, ObjBound, out>>

\* a limit set in the solver's environment stops the search
TimeLimit ==
  /\ pc = "search"
  /\ status' = "TIME_LIMIT"
  /\ pc' = "solved"
  /\ UNCHANGED <<m_s, constrs, X, Y, L, L_new, excess, ObjBound, out>>

\* the status branch and its prints
Report ==
  /\ pc = "solved"
  /\ out' = Output(status, Node)
  /\ pc' = "done"
  /\ UNCHANGED <<m_s, constrs, X, Y, L, L_new, excess, ObjBound, status>>

Next == Optimize \/ Branch \/ Optimal \/ Report

Spec == Init /\ [][Next]_vars

\* the scenario with every slot capacity 0, for the whole constraint system
\* and for the system without the capacity or without the AOG family
InitZeroCap ==
  /\ pc = "optimize"
  /\ m_s = [s \in S |-> 0]
  /\ constrs \in {AllConstrs, AllConstrs \ {"Slot_capacity"},
                  AllConstrs \ {"AOG_prevent"}}
  /\ X = <<>> /\ Y = <<>> /\ L = <<>> /\ L_new = <<>> /\ excess = 0
  /\ ObjBound = GRB_INFINITY
  /\ status = "LOADED"
  /\ out = <<>>

NextZeroCap == Optimize \/ Branch \/ Optimal \/ Infeasible \/ Report

SpecZeroCap == InitZeroCap /\ [][NextZeroCap]_vars

\* the hardcoded instance under a solver limit
NextLimit == Optimize \/ Branch \/ Optimal \/ TimeLimit \/ Report

SpecLimit == Init /\ [][NextLimit]_vars

----------------------------------------------------------------------------
TypeOK ==
  /\ pc \in {"optimize", "search", "solved", "done"}
  /\ status \in {"LOADED", "OPTIMAL", "INFEASIBLE", "TIME_LIMIT"}
  /\ excess \in 0 .. MaxSlack
  /\ \A k \in DOMAIN X : X[k] \in {0, 1}
  /\ \A k \in DOMAIN Y : Y[k] \in {0, 1}

\* the search cuts off exactly the infeasible assignments
LeafFeasible == IsLeaf(Node) => Feasible(Node)


----------------------------------------------------------------------------
(* Properties.  A node whose rows are fixed for an aircraft is a prefix of *)
(* every feasible solution below it, so a property of those rows that      *)
(* holds on every node holds in every feasible solution.                   *)

Assigned(a) == {s \in S_a[a] : Y[a, s] = 1}

\* C1: assignment linking: in every feasible solution, for every aircraft a
\* and slot s, Y[a,s] = 1 iff X[a,c,s] = 1 for at least one component c
C1_Linking ==
  \A a \in XDone(Node) : \A s \in S_a[a] :
     (Y[a, s] = 1) <=> (\E c \in C[a] : X[a, c, s] = 1)

\* a feasible solution with an aircraft assigned to a slot where it
\* replaces some but not all components, and with an unused slot
C1_Witness ==
  /\ IsLeaf(Node) /\ Feasible(Node)
  /\ \E a \in A : \E s \in S_a[a] :
        /\ Y[a, s] = 1
        /\ \E c \in C[a] : X[a, c, s] = 1
        /\ \E c \in C[a] : X[a, c, s] = 0
  /\ \E a \in A : \E s \in S_a[a] : Y[a, s] = 0

\* C2: capacity: in every feasible solution the number of aircraft assigned
\* to a slot is at most m_s[s], so no two aircraft share a slot
C2_Capacity ==
  YDone(Node) = A =>
    \A s \in S :
       /\ Cardinality({a \in A : Y[a, s] = 1}) <= m_s[s]
       /\ \A a, b \in A : Y[a, s] = 1 /\ Y[b, s] = 1 => a = b

\* a feasible solution with both aircraft assigned, each slot used to capacity
C2_Witness ==
  /\ IsLeaf(Node) /\ Feasible(Node)
  /\ \A a \in A : Assigned(a) # {}
  /\ \E s \in S : Cardinality({a \in A : Y[a, s] = 1}) = m_s[s]

\* C3: in every feasible solution every aircraft has at most one slot s
\* with Y[a,s] = 1
C3_OneSlot == \A a \in YDone(Node) : Cardinality(Assigned(a)) <= 1

\* a feasible solution in which the non-critical aircraft has a slot
C3_Witness ==
  /\ IsLeaf(Node) /\ Feasible(Node)
  /\ \E a \in A \ A_r : Cardinality(Assigned(a)) = 1

C5_ExampleFeasible ==
  /\ pc # "optimize" => ObjBound < GRB_INFINITY
  /\ pc \in {"solved", "done"} =>
        /\ status = "OPTIMAL"
        /\ IsLeaf(Node) /\ Feasible(Node)
        /\ Objective(Node) = ObjBound
  /\ pc = "done" => Head(out) = <<"optimal_found">>

\* the script has printed the optimal branch for a feasible solution
C5_Witness ==
  /\ pc = "done" /\ status = "OPTIMAL"
  /\ IsLeaf(Node) /\ Feasible(Node)
  /\ out[1] = <<"optimal_found">>
  /\ out[2] = <<"objective", ObjBound>>
  /\ Cardinality(A) = 2 /\ \A a \in A : Cardinality(C[a]) = 4
  /\ {d_s[s] : s \in S} = {1, 3, 5} /\ \A s \in S : m_s[s] = 1
  /\ PH = 7 /\ Delta = 3 /\ \A d \in days : S_begin[d] = 2
  /\ A_r = {0} /\ d_r[0] = 5

\* C6: with every slot capacity 0 the whole constraint system is infeasible,
\* and it becomes feasible as soon as the capacity family or the AOG family
\* is left out, so every conflicting set contains constraints of both
C6_ZeroCapInfeasible ==
  /\ pc # "optimize" => (ObjBound = GRB_INFINITY <=> constrs = AllConstrs)
  /\ IsLeaf(Node) => constrs # AllConstrs
  /\ pc \in {"solved", "done"} =>
        (status = "INFEASIBLE" <=> constrs = AllConstrs)

\* the whole system with capacity 0 has been reported infeasible
C6_Witness ==
  /\ pc = "done" /\ status = "INFEASIBLE"
  /\ constrs = AllConstrs
  /\ \A s \in S : m_s[s] = 0
  /\ out = << <<"not_found">> >>

NonOptimal == {"INFEASIBLE", "UNBOUNDED", "TIME_LIMIT"}

\* C7: when the solver does not end optimal, what the program reports
\* differs between infeasible, unbounded and time-limit-exceeded
C7_Distinguished ==
  pc = "done" /\ status \in NonOptimal =>
     \A t \in NonOptimal \ {status} : Output(t, Node) # out

\* replacements whose repair window covers day d, counted on the solution
C8_R(d) ==
  Cardinality({k \in AllXKeys : /\ X[k] = 1
                                /\ d_s[k[3]] <= d
                                /\ d < d_s[k[3]] + Delta})

\* C8: in every cost-minimal solution of the hardcoded instance, for every
\* day d, L[d] = max(0, R(d) - S_begin[d])
C8_LeaseShortfall ==
  status = "OPTIMAL" =>
     \A d \in days : L[d] = Max(0, C8_R(d) - S_begin[d])

\* an optimal solution that leases on some day and not on another
C8_Witness ==
  /\ status = "OPTIMAL"
  /\ \E d \in days : L[d] > 0 /\ C8_R(d) > S_begin[d]
  /\ \E d \in days : L[d] = 0

\* C9: in every feasible solution every component is replaced at most once,
\* so the factor (1 - sum_s X[a,c,s]) of the postpone cost is 0 or 1
C9_ReplacedOnce ==
  \A a \in XDone(Node) : \A c \in C[a] :
     /\ quicksum([s \in S_a[a] |-> X[a, c, s]]) <= 1
     /\ 1 - quicksum([s \in S_a[a] |-> X[a, c, s]]) \in {0, 1}

\* a feasible solution with a replaced and a postponed component
C9_Witness ==
  /\ IsLeaf(Node) /\ Feasible(Node)
  /\ \E k \in DOMAIN d_install :
        quicksum([s \in S_a[k[1]] |-> X[k[1], k[2], s]]) = 1
  /\ \E k \in DOMAIN d_install :
        quicksum([s \in S_a[k[1]] |-> X[k[1], k[2], s]]) = 0

====
